---- MODULE Spec2Model ----
(***************************************************************************)
(* A model of the agent <-> tool feedback loop (StatelessAgent.call) and   *)
(* of the sequential pipeline (Workflow.run) of kiya-002.                  *)
(*                                                                         *)
(* Python values are tagged records: None, Str, Bool, Dict, List.  A       *)
(* string is a sequence of chunks, so that an f-string is a concatenation  *)
(* and "the error text contains the raw text" is a subsequence test.  A    *)
(* dict is a function from its keys to values; d.get(k, default) is Get.   *)
(***************************************************************************)
EXTENDS Integers, Sequences, FiniteSets, TLC

VARIABLES
    agent,             \* the StatelessAgent being called: name, is_in_workflow
    message,           \* the argument of call()
    processed_message, \* call()'s local `processed_message`
    pc,                \* position of call(): idle, query, tool, requery, done
    response,          \* call()'s local `response`
    tool_arg,          \* the argument of the next_node.run in flight
    tool_response,     \* call()'s local `tool_response`
    result,            \* the value call() returned
    escaped,           \* an exception left call()
    respLog,           \* history: outcome of every llm.query of this call
    toolLog,           \* history: argument and outcome of every next_node.run
    nodes,             \* Workflow.nodes
    wpc,               \* position of Workflow.run: off, idle, loop, await, done
    wprompt,           \* the argument of Workflow.run
    idx,               \* the list iterator of `for node in self.nodes`
    next_node_input,   \* run()'s local `next_node_input`
    wresult,           \* the value Workflow.run returned
    calls,             \* history: stage and outcome of every node.call
    run_nodes,         \* history: Workflow.nodes when run() was entered
    llm_text,          \* the response_text handed to _ensure_json_response
    perplexity_response, \* what PerplexityLLM._ensure_json_response returned
    gemini_response,   \* what GeminiLLM._ensure_json_response returned
    suspended          \* the locals of the coroutine that is not running

agentVars == <<agent, message, processed_message, pc, response, tool_arg,
               tool_response, result, escaped, respLog, toolLog>>
wfVars == <<nodes, wpc, wprompt, idx, next_node_input, wresult, calls,
            run_nodes>>
llmVars == <<llm_text, perplexity_response, gemini_response>>
vars == <<agentVars, wfVars, llmVars, suspended>>

-----------------------------------------------------------------------------
(* Bounds of the model. *)

\* llm.query calls explored in one StatelessAgent.call
MaxQueries == 3
\* nodes of a Workflow
MaxNodes == 3
\* fields named in an agent's include_fields
MaxFields == 2

-----------------------------------------------------------------------------
(* Python values. *)

None == [t |-> "none"]
Str(chunks) == [t |-> "str", s |-> chunks]
Bool(b) == [t |-> "bool", b |-> b]
Dict(d) == [t |-> "dict", d |-> d]
List(l) == [t |-> "list", l |-> l]
True == Bool(TRUE)
False == Bool(FALSE)
EmptyDict == Dict([k \in {} |-> None])

\* A local that has not been assigned, a call that has not returned.
Unset == [t |-> "unset"]
\* An exception raised by a callee (llm.query, next_node.run).
Raise(chunks) == [t |-> "raise", s |-> chunks]

IsDict(v) == v.t = "dict"
\* d.get(k, dflt)
Get(v, k, dflt) == IF k \in DOMAIN v.d THEN v.d[k] ELSE dflt
\* str(v), as chunks
StrOf(v) == IF v.t = "str" THEN v.s ELSE <<ToString(v)>>
\* bool(v): the truth value of `if v`
Truthy(v) ==
    CASE v.t = "none" -> FALSE
      [] v.t = "bool" -> v.b
      [] v.t = "str"  -> v.s # <<>>
      [] v.t = "dict" -> DOMAIN v.d # {}
      [] v.t = "list" -> v.l # <<>>
      [] OTHER -> TRUE

-----------------------------------------------------------------------------
(* What the collaborators hand to the agent. *)

\* Structured values a model's text parses to (json.loads): an object, an array.
Obj == Dict([subject |-> Str(<<"hi">>)])
Arr == List(<<Dict([company_name |-> Str(<<"Acme">>)])>>)
Payloads == {Obj, Arr}
\* Model output with no recoverable structure.
Prose == <<"plain prose">>

\* PerplexityLLM._ensure_json_response: the envelope around a parsed value, and
\* the wrapped envelope around raw text.
PerplexityResponses ==
    {Dict([response |-> v, status |-> Str(<<"success">>)]) : v \in Payloads}
    \cup {Dict([response |-> Str(Prose), status |-> Str(<<"success">>),
                format |-> Str(<<"wrapped">>)])}

\* GeminiLLM._ensure_json_response: the parsed value itself, and the wrapped
\* envelope serialized by json.dumps (a str).
GeminiResponses ==
    Payloads
    \cup {Str(<<"{\"response\": \"">> \o Prose
              \o <<"\", \"status\": \"success\", \"format\": \"wrapped\"}">>)}

\* A response reporting failure, as call() reads it: status, error.
ErrorEnvelope == Dict([status |-> Str(<<"error">>), error |-> Str(<<"provider failure">>)])

\* The exception both clients' query raises on a transport failure.
QueryError == Raise(<<"Error generating response: Exception: API Error 500">>)

\* Every outcome of `await self.llm.query(...)` call() provides for.
LLMOutcomes ==
    PerplexityResponses \cup GeminiResponses \cup {ErrorEnvelope, None, QueryError}

\* The results of the repository's tools and of the Tool.run contract.
ToolSuccessEcho(arg) == Dict([success |-> True, response |-> arg])
ToolSuccessMail ==
    Dict([success |-> True,
          message |-> Str(<<"Email sent successfully to 1 recipient(s)">>),
          recipients |-> List(<<Str(<<"a@b.co">>)>>)])
ToolClientError ==
    Dict([success |-> False, server_error |-> False,
          error |-> Str(<<"Input validation failed: Input data must be a list of dictionaries">>)])
ToolServerError ==
    Dict([success |-> False, server_error |-> True,
          error |-> Str(<<"SMTP credentials not configured">>)])
ToolFailureNoFlag ==
    Dict([success |-> False, error |-> Str(<<"SMTP error: connection lost">>)])
\* A dict that is no tri-state value: it has no "success".
ToolNoSuccessKey == Dict([message |-> Str(<<"done">>)])
\* smtplib.SMTP(...) raising OSError, which MailSenderTool.run does not catch.
ToolRaise == Raise(<<"[Errno 111] Connection refused">>)

\* Every outcome of `self.next_node.run(arg)`.
ToolOutcomes(arg) ==
    {ToolSuccessEcho(arg), ToolSuccessMail, ToolClientError, ToolServerError,
     ToolFailureNoFlag, ToolNoSuccessKey, None, ToolRaise}
-----------------------------------------------------------------------------
(* StatelessAgent.before_call: the message as the prompt shows it.  A text  *)
(* of several lines is the sequence of its lines; a field path is the      *)
(* sequence of its segments: keys, "." between them, "[i]" for a list item. *)

\* isinstance(v, (str, int, float, bool, type(None)))
IsPrimitive(v) == v.t \in {"str", "int", "bool", "none"}

\* q.startswith(p)
StartsWith(q, p) == Len(p) <= Len(q) /\ SubSeq(q, 1, Len(p)) = p

\* f"[{i}]"
Index(i) == "[" \o ToString(i) \o "]"

\* "  " * indent_level
Indent(indent_level) == [i \in 1..indent_level |-> "  "]

\* ', '.join(map(str, l))
RECURSIVE Join(_)
Join(l) ==
    IF l = <<>> THEN <<>>
    ELSE IF Len(l) = 1 THEN StrOf(l[1])
    ELSE StrOf(l[1]) \o <<", ">> \o Join(Tail(l))

\* One line of the readable text, and beside it the field path and the key it
\* renders (none for a line that renders no key).
Line(path, key, text) == [path |-> path, key |-> key, text |-> text]

\* f"{prefix}{text}": the first line of the text goes on the prefix's line.
Prefixed(prefix, lines) ==
    IF lines = <<>> THEN <<Line(<<>>, "", prefix)>>
    ELSE <<[lines[1] EXCEPT !.text = prefix \o @]>> \o Tail(lines)

\* The filter on a key: some named field is the key's path, or lies below it,
\* or the key itself is a named field.
should_include(self, field_path, key) ==
    \E i \in 1..Len(self.include_fields.l) :
        LET field == self.include_fields.l[i].s
        IN  \/ field = field_path
            \/ StartsWith(field, field_path \o <<".">>)
            \/ \E j \in 1..Len(self.include_fields.l) :
                   self.include_fields.l[j] = Str(<<key>>)

RECURSIVE convert_json_to_readable_string(_, _, _, _)
RECURSIVE readable_lines(_, _, _, _, _)
RECURSIVE readable_sections(_, _, _, _, _, _)

\* The lines of the keys `keys` of the dict data.  A dict of the model keeps
\* no order of its keys: the keys of one dict come in a fixed order.
readable_lines(self, data, keys, indent_level, current_path) ==
    IF keys = {} THEN <<>>
    ELSE
      LET key == CHOOSE k \in keys : TRUE
          value == data.d[key]
          field_path == IF current_path = <<>> THEN <<key>>
                        ELSE current_path \o <<".", key>>
          head(text) ==
              Line(field_path, key, Indent(indent_level) \o <<key, ":">> \o text)
          nested == convert_json_to_readable_string(
                        self, value, indent_level + 1, field_path)
          own ==
              IF /\ self.include_fields # None
                 /\ ~should_include(self, field_path, key)
                THEN <<>>
              ELSE IF IsPrimitive(value)
                THEN <<head(<<" ">> \o StrOf(value))>>
              ELSE IF value.t = "list"
                THEN IF value.l = <<>> THEN <<head(<<" []">>)>>
                     ELSE IF \A i \in 1..Len(value.l) : IsPrimitive(value.l[i])
                       THEN <<head(<<" ">> \o Join(value.l))>>
                     ELSE <<head(<<>>)>>
                          \o readable_sections(self, value.l, 1,
                                 Indent(indent_level + 1), indent_level + 2,
                                 field_path)
              ELSE <<head(<<>>)>>
                   \o (IF nested = <<>> THEN <<Line(<<>>, "", <<>>)>> ELSE nested)
      IN  own \o readable_lines(self, data, keys \ {key}, indent_level,
                                current_path)

\* The sections of the items i.. of a list of complex objects: "[i]: " and the
\* item's text, rendered at level nested_level under the path of the item.
readable_sections(self, items, i, indent, nested_level, current_path) ==
    IF i > Len(items) THEN <<>>
    ELSE Prefixed(indent \o <<Index(i), ": ">>,
                  convert_json_to_readable_string(
                      self, items[i], nested_level,
                      current_path \o <<Index(i)>>))
         \o readable_sections(self, items, i + 1, indent, nested_level,
                              current_path)

convert_json_to_readable_string(self, data, indent_level, current_path) ==
    IF data.t = "dict"
      THEN readable_lines(self, data, DOMAIN data.d, indent_level, current_path)
    ELSE IF data.t = "list"
      THEN IF data.l = <<>> THEN <<Line(<<>>, "", <<"[]">>)>>
           ELSE IF \A i \in 1..Len(data.l) : IsPrimitive(data.l[i])
             THEN <<Line(<<>>, "", <<"[">> \o Join(data.l) \o <<"]">>)>>
           ELSE readable_sections(self, data.l, 1, Indent(indent_level),
                                  indent_level + 1, current_path)
    ELSE <<Line(<<>>, "", StrOf(data))>>

\* A str of several lines.
Readable(lines) == [t |-> "str", lines |-> lines]

\* before_call: a dict or a list is converted, any other message is kept.
before_call(self, input_data) ==
    IF input_data.t \in {"dict", "list"}
      THEN Readable(convert_json_to_readable_string(self, input_data, 0, <<>>))
      ELSE input_data

-----------------------------------------------------------------------------
(* StatelessAgent.call *)

\* The agents of the model: one with a bound tool (next_node), one without;
\* include_fields keeps its default.
Agents ==
    {[name |-> "LeadGenerationAgent", is_in_workflow |-> TRUE,
      include_fields |-> None],
     [name |-> "Lucifer", is_in_workflow |-> FALSE, include_fields |-> None]}

\* The values call() returns.
Ok(data) == Dict([success |-> True, data |-> data])
Fail(chunks) == Dict([success |-> False, error |-> Str(chunks)])

\* type(v).__name__
TypeName(v) ==
    CASE v.t = "none" -> "NoneType"
      [] v.t = "bool" -> "bool"
      [] OTHER -> v.t

\* The exception of `response.get(...)` on a value that is no dict.
AttributeError(v) == Raise(<<"'", TypeName(v), "' object has no attribute 'get'">>)

\* A handler as narrow as MailSenderTool.run's, which lets an OSError through.
CatchesNarrow(e) == e # ToolRaise

\* `except Exception as e` around the body of call(): every exception a callee
\* raises is caught there.
Catches(e) == TRUE

\* The handler's return value: {"success": False, "error": str(e)}.
Caught(e) == Fail(e.s)

\* A first-response test that also rejects the wrapped format.
StatusIsSuccessNotWrapped(r) ==
    /\ Get(r, "status", None) = Str(<<"success">>)
    /\ Get(r, "format", None) # Str(<<"wrapped">>)

\* `response.get('status') != 'success'`, negated: the first response passes.
StatusIsSuccess(r) == Get(r, "status", None) = Str(<<"success">>)

\* The exception call() raises for a first response that reports failure.
StatusError(a, r) ==
    Raise(<<a.name, " error: ">> \o StrOf(Get(r, "error", Str(<<"Unknown error">>))))

\* A loop that asks for a corrective query on every failure, ServerError too.
LoopConditionAnyFailure(tr) ==
    \/ ~IsDict(tr)
    \/ Get(tr, "success", True) = False

\* The condition of the while loop: the tool's result asks for a corrective query.
LoopCondition(tr) ==
    \/ ~IsDict(tr)
    \/ /\ Get(tr, "success", True) = False
       /\ Get(tr, "server_error", False) = False

\* A loop of one corrective attempt: whatever the model answers, it gives up.
GivesUpOnAny(r) == TRUE

\* A loop that gives up on a missing response only, not on a wrapped one.
GivesUpOnNone(r) == r = None

\* The condition under which a corrective response ends the call in failure.
GivesUp(r) ==
    \/ r = None
    \/ /\ IsDict(r)
       /\ Get(r, "status", None) = Str(<<"success">>)
       /\ Get(r, "format", None) = Str(<<"wrapped">>)

\* A failure whose text leaves the response out.
GiveUpResultNoText(a, r) == Fail(<<a.name, " says tool call failed">>)

\* The failure returned then: the error text carries the response's text.
GiveUpResult(a, r) ==
    LET response_text == IF IsDict(r) THEN Get(r, "response", Str(StrOf(r)))
                         ELSE Str(StrOf(r))
    IN  Fail(<<a.name, " says tool call failed, generated response: ">>
             \o StrOf(response_text))

\* The data of the success returned after the loop.
ReturnData(tr) == IF IsDict(tr) THEN Get(tr, "response", EmptyDict) ELSE tr

\* What the history keeps of a value: the value itself in a call made on its
\* own; within a Workflow.run only the steps of a node's call are counted.
Seen(v) == IF wpc = "off" THEN v ELSE Unset

\* The number of llm.query calls made so far in this call.
queries == Len(respLog) + (IF pc \in {"query", "requery"} THEN 1 ELSE 0)
\* The number of next_node.run calls made so far in this call.
tool_runs == Len(toolLog) + (IF pc = "tool" THEN 1 ELSE 0)

\* A call that starts by invoking the tool, before any query.
EnterInvokingTool(a, m) ==
    /\ agent' = a
    /\ message' = m
    /\ processed_message' = before_call(a, m)
    /\ pc' = "tool"
    /\ response' = Unset
    /\ tool_arg' = Unset
    /\ tool_response' = Unset
    /\ result' = Unset
    /\ escaped' = FALSE
    /\ respLog' = <<>>
    /\ toolLog' = <<>>

\* The state of a call that has just issued its first llm.query.
Enter(a, m) ==
    /\ agent' = a
    /\ message' = m
    /\ processed_message' = before_call(a, m)
    /\ pc' = "query"
    /\ response' = Unset
    /\ tool_arg' = Unset
    /\ tool_response' = Unset
    /\ result' = Unset
    /\ escaped' = FALSE
    /\ respLog' = <<>>
    /\ toolLog' = <<>>

\* call() ends on exception e: returned by the handler, or left to the caller.
Throw(e) ==
    /\ pc' = "done"
    /\ IF Catches(e)
         THEN result' = Caught(e) /\ escaped' = FALSE
         ELSE result' = Unset /\ escaped' = TRUE

\* call() returns v.
Return(v) ==
    /\ pc' = "done"
    /\ result' = v
    /\ escaped' = FALSE

\* agent.call(message) is invoked on its own (a controller's call).
Call ==
    /\ wpc = "off"
    /\ pc = "idle"
    /\ Enter(agent, message)
    /\ UNCHANGED <<wfVars, llmVars, suspended>>

\* The first llm.query comes back with outcome o; with a tool bound and a
\* response that reports success, the tool is handed the response's payload.
FirstQueryReturns(o) ==
    /\ pc = "query"
    /\ respLog' = Append(respLog, Seen(o))
    /\ IF o.t = "raise"
         THEN Throw(o) /\ UNCHANGED <<response, tool_arg>>
       ELSE IF ~agent.is_in_workflow
         THEN Return(Ok(o)) /\ response' = o /\ UNCHANGED tool_arg
       ELSE IF ~IsDict(o)
         THEN Throw(AttributeError(o)) /\ response' = o /\ UNCHANGED tool_arg
       ELSE IF ~StatusIsSuccess(o)
         THEN Throw(StatusError(agent, o)) /\ response' = o /\ UNCHANGED tool_arg
       ELSE /\ pc' = "tool"
            /\ response' = Get(o, "response", None)
            /\ tool_arg' = Get(o, "response", None)
            /\ UNCHANGED <<result, escaped>>
    /\ UNCHANGED <<agent, message, processed_message, tool_response, toolLog, wfVars, llmVars,
                   suspended>>

\* next_node.run(tool_arg) comes back with outcome tr; the while condition is
\* evaluated on it: a corrective llm.query is issued, or call() returns.
ToolReturns(tr) ==
    /\ pc = "tool"
    /\ toolLog' = Append(toolLog, [arg |-> Seen(tool_arg), out |-> Seen(tr)])
    /\ IF tr.t = "raise"
         THEN Throw(tr) /\ UNCHANGED tool_response
       ELSE /\ tool_response' = tr
            /\ IF LoopCondition(tr)
                 THEN /\ Len(respLog) < MaxQueries
                      /\ pc' = "requery"
                      /\ UNCHANGED <<result, escaped>>
                 ELSE Return(Ok(ReturnData(tr)))
    /\ UNCHANGED <<agent, message, processed_message, response, tool_arg, respLog, wfVars, llmVars,
                   suspended>>

\* A corrective llm.query comes back with outcome o: call() gives up, or hands
\* the response to the tool.
CorrectiveQueryReturns(o) ==
    /\ pc = "requery"
    /\ respLog' = Append(respLog, Seen(o))
    /\ IF o.t = "raise"
         THEN Throw(o) /\ UNCHANGED <<response, tool_arg>>
       ELSE /\ response' = o
            /\ IF GivesUp(o)
                 THEN Return(GiveUpResult(agent, o)) /\ UNCHANGED tool_arg
                 ELSE /\ pc' = "tool"
                      /\ tool_arg' = o
                      /\ UNCHANGED <<result, escaped>>
    /\ UNCHANGED <<agent, message, processed_message, tool_response, toolLog, wfVars, llmVars,
                   suspended>>

AgentStep ==
    \/ \E o \in LLMOutcomes : FirstQueryReturns(o)
    \/ \E tr \in ToolOutcomes(tool_arg) : ToolReturns(tr)
    \/ \E o \in LLMOutcomes : CorrectiveQueryReturns(o)

-----------------------------------------------------------------------------
(* The specification of one StatelessAgent.call. *)

\* The prompts a controller calls an agent with.
Prompts == {Str(<<"find leads in Pune">>), Str(<<"mail the offer">>)}

AgentIdle ==
    /\ processed_message = Unset
    /\ pc = "idle"
    /\ response = Unset
    /\ tool_arg = Unset
    /\ tool_response = Unset
    /\ result = Unset
    /\ escaped = FALSE
    /\ respLog = <<>>
    /\ toolLog = <<>>

\* No text is being normalized.
LLMIdle ==
    /\ llm_text = Unset
    /\ perplexity_response = Unset
    /\ gemini_response = Unset

WorkflowOff ==
    /\ nodes = <<>>
    /\ wpc = "off"
    /\ wprompt = Unset
    /\ idx = 0
    /\ next_node_input = Unset
    /\ wresult = Unset
    /\ calls = <<>>
    /\ run_nodes = <<>>

Init ==
    /\ agent \in Agents
    /\ message \in Prompts
    /\ AgentIdle
    /\ WorkflowOff
    /\ LLMIdle
    /\ suspended = Unset

Next == Call \/ AgentStep

Spec == Init /\ [][Next]_vars
-----------------------------------------------------------------------------
(* Workflow.run *)

\* d[k]: the value, or KeyError
HasKey(v, k) == IsDict(v) /\ k \in DOMAIN v.d

\* An input that always carries "Input", empty data too.
NodeInputAlways(p, data) ==
    Dict(("User instructions" :> p) @@ ("Input" :> data))

\* The input of a node: the user instruction and, when the carried data is
\* truthy, that data under "Input".
NodeInput(p, data) ==
    IF Truthy(data)
      THEN Dict(("User instructions" :> p) @@ ("Input" :> data))
      ELSE Dict("User instructions" :> p)

\* `if next_node_input['success'] is False`: the run raises and stops.
NodeFailed(r) == r.d["success"] = False

\* Workflow.nodes is a List[Any]: a node that is no StatelessAgent, of which
\* run() uses nothing but `name` and `call`.
AnyNode == [name |-> "node", is_in_workflow |-> FALSE]

\* What the call of such a node can hand to run(): an exception, a dict without
\* "success", a success, a failure.
AnyNodeRaise == Raise(<<"node.call failed">>)
AnyNodeOutcomes ==
    {AnyNodeRaise, Dict([data |-> Obj]), Ok(Obj), Fail(<<"node error">>)}

\* `await node.call(node_input)` is entered: a StatelessAgent issues its first
\* llm.query, the call of any other node is in flight as a whole.
CallNode(a, m) ==
    /\ agent' = a
    /\ message' = m
    /\ processed_message' = IF a = AnyNode THEN Unset ELSE before_call(a, m)
    /\ pc' = IF a = AnyNode THEN "call" ELSE "query"
    /\ response' = Unset
    /\ tool_arg' = Unset
    /\ tool_response' = Unset
    /\ result' = Unset
    /\ escaped' = FALSE
    /\ respLog' = <<>>
    /\ toolLog' = <<>>

\* The call of a node that is no StatelessAgent ends: it returns o or raises it.
AnyNodeCallEnds(o) ==
    /\ pc = "call"
    /\ pc' = "done"
    /\ IF o.t = "raise"
         THEN result' = Unset /\ escaped' = TRUE
         ELSE result' = o /\ escaped' = FALSE
    /\ UNCHANGED <<agent, message, processed_message, response, tool_arg, tool_response,
                   respLog, toolLog, wfVars, llmVars, suspended>>

\* The success field of the value a node's call returned, for the history.
Outcome(r) ==
    IF ~HasKey(r, "success") THEN "no_success_key"
    ELSE IF r.d["success"] = False THEN "failure"
    ELSE "success"

\* The for loop at its head, with i nodes consumed, nni carried and log the
\* calls made: the next node is called, or the loop is over and run() returns
\* nni.  An exception (a carried value without 'data') is logged by the
\* handler, and run() returns nni as well.
Advance(p, i, nni, log) ==
    IF i < Len(nodes) /\ HasKey(nni, "data")
      THEN /\ CallNode(nodes[i + 1], NodeInput(p, nni.d["data"]))
           /\ idx' = i + 1
           /\ wpc' = "await"
           /\ wresult' = Unset
           /\ calls' = Append(log, [stage |-> i + 1, out |-> "pending"])
      ELSE /\ idx' = i
           /\ wpc' = "done"
           /\ wresult' = nni
           /\ calls' = log
           /\ UNCHANGED agentVars

\* A handler that returns nothing.
StopReturningNone(nni, log) ==
    /\ wpc' = "done"
    /\ wresult' = None
    /\ calls' = log
    /\ UNCHANGED <<idx, agentVars>>

\* The handler of run(): the exception is logged, and run() returns nni.
Stop(nni, log) ==
    /\ wpc' = "done"
    /\ wresult' = nni
    /\ calls' = log
    /\ UNCHANGED <<idx, agentVars>>

\* workflow.run(p) is invoked.
WfRun(p) ==
    /\ wpc = "idle"
    /\ wprompt' = p
    /\ next_node_input' = Dict([data |-> EmptyDict])
    /\ Advance(p, 0, Dict([data |-> EmptyDict]), calls)
    /\ run_nodes' = nodes
    /\ UNCHANGED <<nodes, llmVars, suspended>>

\* `await node.call(node_input)` is over: the result is carried on to the next
\* node, unless it is a failure, or the call raised, and the run stops.  A
\* result without 'success' raises KeyError in the test, and stops the run too.
WfNodeReturns ==
    /\ wpc = "await"
    /\ pc = "done"
    /\ IF escaped
         THEN /\ next_node_input' = next_node_input
              /\ Stop(next_node_input, [calls EXCEPT ![Len(calls)].out = "raised"])
         ELSE /\ next_node_input' = result
              /\ LET log == [calls EXCEPT ![Len(calls)].out = Outcome(result)]
                 IN  IF ~HasKey(result, "success") THEN Stop(result, log)
                     ELSE IF NodeFailed(result) THEN Stop(result, log)
                     ELSE Advance(wprompt, idx, result, log)
    /\ UNCHANGED <<nodes, wprompt, run_nodes, llmVars, suspended>>

\* The node lists of the model.
RECURSIVE SeqsUpTo(_, _)
SeqsUpTo(S, n) ==
    IF n = 0 THEN {<<>>}
    ELSE LET shorter == SeqsUpTo(S, n - 1)
         IN  shorter \cup {Append(q, x) : q \in shorter, x \in S}

NoAgent == [name |-> "", is_in_workflow |-> FALSE]

WfInit ==
    /\ nodes \in SeqsUpTo(Agents \cup {AnyNode}, MaxNodes)
    /\ wpc = "idle"
    /\ wprompt = Unset
    /\ idx = 0
    /\ next_node_input = Unset
    /\ wresult = Unset
    /\ calls = <<>>
    /\ run_nodes = <<>>
    /\ agent = NoAgent
    /\ message = Unset
    /\ AgentIdle
    /\ LLMIdle
    /\ suspended = Unset

WfNext ==
    \/ \E p \in Prompts : WfRun(p)
    \/ AgentStep
    \/ \E o \in AnyNodeOutcomes : AnyNodeCallEnds(o)
    \/ WfNodeReturns

WorkflowSpec == WfInit /\ [][WfNext]_vars
-----------------------------------------------------------------------------
(* _ensure_json_response: json.loads, re.search and the recovery steps.      *)
(* A text is a sequence of tokens: a bracket, a scalar, a word, a newline or *)
(* a fence are one token each, so that a span of the text is a subsequence.  *)

\* tokens of a text explored exhaustively
MaxLen == 4

\* The fence of a markdown code block (three backquotes), its tag, a newline.
Fence == "~~~"
Tag == "json"
NL == "\n"
\* A word of prose: no JSON.
Word == "plain"
Tokens == {Word, "[", "]", "{", "}", "1", Fence, Tag, NL}

\* A number.
Num(n) == [t |-> "int", n |-> n]

\* The scalars and the object keys json.loads reads in the texts of the model.
JsonNumbers == {1}
JsonStrings == {"hi", "Acme"}
JsonKeys == {"subject", "company_name"}
Quoted(w) == "\"" \o w \o "\""
KeyToken(k) == Quoted(k) \o ":"

\* \s
IsSpace(tok) == tok = NL

ParseFail == [ok |-> FALSE, v |-> None, n |-> 0]
Parsed(v, n) == [ok |-> TRUE, v |-> v, n |-> n]

\* json.loads, by recursive descent from token i of t: the value read and the
\* position after it.
RECURSIVE ParseValue(_, _)
RECURSIVE ParseElements(_, _, _)
RECURSIVE ParseMembers(_, _, _)
ParseValue(t, i) ==
    IF i > Len(t) THEN ParseFail
    ELSE IF \E n \in JsonNumbers : t[i] = ToString(n)
      THEN Parsed(Num(CHOOSE n \in JsonNumbers : t[i] = ToString(n)), i + 1)
    ELSE IF \E w \in JsonStrings : t[i] = Quoted(w)
      THEN Parsed(Str(<<CHOOSE w \in JsonStrings : t[i] = Quoted(w)>>), i + 1)
    ELSE IF t[i] = "["
      THEN IF i + 1 <= Len(t) /\ t[i + 1] = "]"
             THEN Parsed(List(<<>>), i + 2)
             ELSE ParseElements(t, i + 1, <<>>)
    ELSE IF t[i] = "{"
      THEN IF i + 1 <= Len(t) /\ t[i + 1] = "}"
             THEN Parsed(EmptyDict, i + 2)
             ELSE ParseMembers(t, i + 1, [k \in {} |-> None])
    ELSE ParseFail
ParseElements(t, i, acc) ==
    LET r == ParseValue(t, i)
    IN  IF ~r.ok \/ r.n > Len(t) THEN ParseFail
        ELSE IF t[r.n] = "]" THEN Parsed(List(Append(acc, r.v)), r.n + 1)
        ELSE IF t[r.n] = "," THEN ParseElements(t, r.n + 1, Append(acc, r.v))
        ELSE ParseFail
ParseMembers(t, i, d) ==
    IF i > Len(t) \/ ~\E k \in JsonKeys : t[i] = KeyToken(k) THEN ParseFail
    ELSE LET key == CHOOSE k \in JsonKeys : t[i] = KeyToken(k)
             r == ParseValue(t, i + 1)
             members == (key :> r.v) @@ d
         IN  IF ~r.ok \/ r.n > Len(t) THEN ParseFail
             ELSE IF t[r.n] = "}" THEN Parsed(Dict(members), r.n + 1)
             ELSE IF t[r.n] = "," THEN ParseMembers(t, r.n + 1, members)
             ELSE ParseFail

\* json.loads(text): whitespace between tokens is skipped, and the value must
\* be the whole text; ok is FALSE for JSONDecodeError.
JsonLoads(t) ==
    LET s == SelectSeq(t, LAMBDA tok : ~IsSpace(tok))
        r == ParseValue(s, 1)
    IN  IF r.ok /\ r.n = Len(s) + 1 THEN r ELSE ParseFail

\* json.dumps(v), for a value of JSON.
RECURSIVE JsonDumps(_)
RECURSIVE DumpElements(_, _)
RECURSIVE DumpMembers(_, _)
JsonDumps(v) ==
    CASE v.t = "int" -> <<ToString(v.n)>>
      [] v.t = "str" -> <<Quoted(v.s[1])>>
      [] v.t = "list" -> <<"[">> \o DumpElements(v.l, 1) \o <<"]">>
      [] v.t = "dict" -> <<"{">> \o DumpMembers(v.d, DOMAIN v.d) \o <<"}">>
DumpElements(l, i) ==
    IF i > Len(l) THEN <<>>
    ELSE (IF i > 1 THEN <<",">> ELSE <<>>) \o JsonDumps(l[i]) \o DumpElements(l, i + 1)
DumpMembers(d, ks) ==
    IF ks = {} THEN <<>>
    ELSE LET k == CHOOSE x \in ks : TRUE
         IN  <<KeyToken(k)>> \o JsonDumps(d[k])
             \o (IF ks = {k} THEN <<>> ELSE <<",">>) \o DumpMembers(d, ks \ {k})

Least(S) == CHOOSE x \in S : \A y \in S : x <= y
NoMatch == [found |-> FALSE, group |-> <<>>]

\* The patterns without the tagged ones.
json_patternsUntagged ==
    << [tag |-> FALSE, nl |-> TRUE],
       [tag |-> FALSE, nl |-> FALSE] >>

\* json_patterns: the fence tagged json or not, with the newlines inside the
\* fence required or not.
json_patterns ==
    << [tag |-> TRUE,  nl |-> TRUE],
       [tag |-> FALSE, nl |-> TRUE],
       [tag |-> TRUE,  nl |-> FALSE],
       [tag |-> FALSE, nl |-> FALSE] >>

\* The ways a fence pattern matches t: the opener at i, group(1) from p, the
\* closer at q.
FenceMatches(t, pat) ==
    {m \in [i : 1..Len(t), p : 1..Len(t), q : 1..Len(t)] :
        LET a == IF pat.tag THEN m.i + 2 ELSE m.i + 1
        IN  /\ t[m.i] = Fence
            /\ pat.tag => (m.i + 1 <= Len(t) /\ t[m.i + 1] = Tag)
            /\ m.p >= (IF pat.nl THEN a + 1 ELSE a)
            /\ \A k \in a..(m.p - 1) : IsSpace(t[k])
            /\ pat.nl => t[m.p - 1] = NL
            /\ m.q >= m.p
            /\ IF pat.nl
                 THEN t[m.q] = NL /\ m.q + 1 <= Len(t) /\ t[m.q + 1] = Fence
                 ELSE t[m.q] = Fence}

\* re.search(pattern, t, re.DOTALL).group(1): the leftmost match, \s* greedy,
\* (.*?) lazy.
FenceSearch(t, pat) ==
    LET ms == FenceMatches(t, pat)
    IN  IF ms = {} THEN NoMatch
        ELSE LET m == CHOOSE x \in ms : \A y \in ms :
                          \/ x.i < y.i
                          \/ x.i = y.i /\ x.p > y.p
                          \/ x.i = y.i /\ x.p = y.p /\ x.q <= y.q
             IN  [found |-> TRUE, group |-> SubSeq(t, m.p, m.q - 1)]

\* The first pattern of pats that matches t, as the for loop finds it.
json_match(t, pats) ==
    LET hits == {k \in 1..Len(pats) : FenceSearch(t, pats[k]).found}
    IN  IF hits = {} THEN NoMatch ELSE FenceSearch(t, pats[Least(hits)])

\* re.search(r'\[.*?\]') and re.search(r'\{.*?\}'): from the first opener that
\* has a closer after it to the first such closer.
SpanSearch(t, open, close) ==
    LET starts == {i \in 1..Len(t) :
                      t[i] = open /\ \E j \in (i + 1)..Len(t) : t[j] = close}
    IN  IF starts = {} THEN NoMatch
        ELSE LET i == Least(starts)
                 j == Least({k \in (i + 1)..Len(t) : t[k] = close})
             IN  [found |-> TRUE, group |-> SubSeq(t, i, j)]
array_match(t) == SpanSearch(t, "[", "]")
object_match(t) == SpanSearch(t, "{", "}")

\* parsed_json and the return statement that hands it back; ok is FALSE when
\* the function falls through to its last statement, after a step found nothing
\* or after json.loads raised inside the inner try.
Attempt(step, candidate) ==
    LET r == JsonLoads(candidate)
    IN  [step |-> step, ok |-> r.ok, v |-> r.v]
Recover(t) ==
    IF JsonLoads(t).ok THEN Attempt("whole", t)
    ELSE IF json_match(t, json_patterns).found
      THEN Attempt("fenced", json_match(t, json_patterns).group)
    ELSE IF array_match(t).found THEN Attempt("array", array_match(t).group)
    ELSE IF object_match(t).found THEN Attempt("object", object_match(t).group)
    ELSE [step |-> "none", ok |-> FALSE, v |-> None]

\* PerplexityLLM._ensure_json_response
PerplexityEnsureJsonResponse(t) ==
    LET r == Recover(t)
    IN  IF r.ok
          THEN Dict([response |-> r.v, status |-> Str(<<"success">>)])
          ELSE Dict([response |-> Str(t), status |-> Str(<<"success">>),
                     format |-> Str(<<"wrapped">>)])

\* The text inside a JSON string literal: a newline is written \n.
Escaped(t) == [i \in 1..Len(t) |-> IF t[i] = NL THEN "\\n" ELSE t[i]]

\* GeminiLLM._ensure_json_response
GeminiEnsureJsonResponse(t) ==
    LET r == Recover(t)
    IN  IF r.ok
          THEN r.v
          ELSE Str(<<"{\"response\": \"">> \o Escaped(t)
                   \o <<"\", \"status\": \"success\", \"format\": \"wrapped\"}">>)

\* The structured values a model is asked to answer with.
StructuredValues ==
    {Obj, Arr, EmptyDict, List(<<>>), List(<<Num(1)>>),
     List(<<List(<<Num(1)>>), Num(1)>>),
     Dict([subject |-> Str(<<"hi">>), company_name |-> List(<<>>)])}

\* What a model writes around a fenced block.
Noises == {<<Word>>, <<Word, "[", Word, "]">>, <<"{", Word>>}

\* noise, a json-tagged fenced block holding the serialization of v, noise
FencedText(before, v, after) ==
    before \o <<NL, Fence, Tag, NL>> \o JsonDumps(v) \o <<NL, Fence, NL>> \o after

SerializedTexts == {JsonDumps(v) : v \in StructuredValues}
FencedTexts ==
    {FencedText(b, v, a) : b \in Noises, v \in StructuredValues, a \in Noises}

\* The texts a model's answer is drawn from.
Texts == SeqsUpTo(Tokens, MaxLen) \cup SerializedTexts \cup FencedTexts

\* self._ensure_json_response(response_text) of each client returns.
PerplexityNormalizes ==
    /\ perplexity_response = Unset
    /\ perplexity_response' = PerplexityEnsureJsonResponse(llm_text)
    /\ UNCHANGED <<llm_text, gemini_response, agentVars, wfVars, suspended>>

GeminiNormalizes ==
    /\ gemini_response = Unset
    /\ gemini_response' = GeminiEnsureJsonResponse(llm_text)
    /\ UNCHANGED <<llm_text, perplexity_response, agentVars, wfVars, suspended>>

LLMInit ==
    /\ llm_text \in Texts
    /\ perplexity_response = Unset
    /\ gemini_response = Unset
    /\ agent = NoAgent
    /\ message = Unset
    /\ AgentIdle
    /\ WorkflowOff
    /\ suspended = Unset

LLMNext == PerplexityNormalizes \/ GeminiNormalizes

LLMSpec == LLMInit /\ [][LLMNext]_vars
-----------------------------------------------------------------------------
(* Two executions on the same objects.  call() and run() are coroutines of   *)
(* one event loop: one of them runs, from one `await self.llm.query` to the  *)
(* next (next_node.run is a plain call and does not yield), while the other  *)
(* is suspended with its locals.  The variables of the sections above are    *)
(* the locals of the running coroutine; `nodes` and the agents in it are the *)
(* objects both share.                                                       *)

\* The locals of the running coroutine.
Frame ==
    [agent |-> agent, message |-> message,
     processed_message |-> processed_message, pc |-> pc, response |-> response,
     tool_arg |-> tool_arg, tool_response |-> tool_response,
     result |-> result, escaped |-> escaped, respLog |-> respLog,
     toolLog |-> toolLog, wpc |-> wpc, wprompt |-> wprompt, idx |-> idx,
     next_node_input |-> next_node_input, wresult |-> wresult, calls |-> calls,
     run_nodes |-> run_nodes]

\* The locals of a coroutine that has not started: a.call(m), or workflow.run.
NewFrame(a, m, w) ==
    [agent |-> a, message |-> m, processed_message |-> Unset, pc |-> "idle",
     response |-> Unset,
     tool_arg |-> Unset, tool_response |-> Unset, result |-> Unset,
     escaped |-> FALSE, respLog |-> <<>>, toolLog |-> <<>>, wpc |-> w,
     wprompt |-> Unset, idx |-> 0, next_node_input |-> Unset,
     wresult |-> Unset, calls |-> <<>>, run_nodes |-> <<>>]

\* A coroutine whose `response` and `tool_response` are kept on the agent
\* (self.response, self.tool_response) instead of in its locals: resuming it
\* finds there what the other coroutine left.
ResumeSharingResponses(f) ==
    /\ agent' = f.agent /\ message' = f.message /\ pc' = f.pc
    /\ processed_message' = f.processed_message /\ run_nodes' = f.run_nodes
    /\ response' = response /\ tool_arg' = f.tool_arg
    /\ tool_response' = tool_response /\ result' = f.result
    /\ escaped' = f.escaped /\ respLog' = f.respLog /\ toolLog' = f.toolLog
    /\ wpc' = f.wpc /\ wprompt' = f.wprompt /\ idx' = f.idx
    /\ next_node_input' = f.next_node_input /\ wresult' = f.wresult
    /\ calls' = f.calls

\* The coroutine with locals f is resumed.
Resume(f) ==
    /\ agent' = f.agent /\ message' = f.message /\ pc' = f.pc
    /\ processed_message' = f.processed_message /\ run_nodes' = f.run_nodes
    /\ response' = f.response /\ tool_arg' = f.tool_arg
    /\ tool_response' = f.tool_response /\ result' = f.result
    /\ escaped' = f.escaped /\ respLog' = f.respLog /\ toolLog' = f.toolLog
    /\ wpc' = f.wpc /\ wprompt' = f.wprompt /\ idx' = f.idx
    /\ next_node_input' = f.next_node_input /\ wresult' = f.wresult
    /\ calls' = f.calls

\* The coroutine with locals f is at an await of llm.query, or has not started.
AtAwait(f) ==
    IF f.wpc = "off" THEN f.pc \in {"idle", "query", "requery"}
    ELSE f.wpc = "idle" \/ (f.wpc = "await" /\ f.pc \in {"query", "requery"})
\* The coroutine with locals f is over.
Finished(f) == IF f.wpc = "off" THEN f.pc = "done" ELSE f.wpc = "done"

\* The event loop switches: the running coroutine yields at its await, or is
\* over, and the suspended one is resumed.
Switch ==
    /\ AtAwait(Frame) \/ Finished(Frame)
    /\ AtAwait(suspended)
    /\ suspended' = Frame
    /\ Resume(suspended)
    /\ UNCHANGED <<nodes, llmVars>>

\* The workflow of the repository.
LeadGenerationWorkflow ==
    << [name |-> "LeadGenerationAgent", is_in_workflow |-> TRUE,
        include_fields |-> None],
       [name |-> "EmailAndPhoneNumberGeneratorAgent", is_in_workflow |-> TRUE,
        include_fields |-> List(<<Str(<<"User instructions">>), Str(<<"Input">>),
                                  Str(<<"company_name">>), Str(<<"website">>),
                                  Str(<<"linkedin_url">>)>>)] >>

\* The outcomes the two executions are interleaved over.
ConcLLMOutcomes ==
    {Dict([response |-> Arr, status |-> Str(<<"success">>)]),
     Dict([response |-> Str(Prose), status |-> Str(<<"success">>),
           format |-> Str(<<"wrapped">>)]),
     QueryError}
ConcToolOutcomes(arg) ==
    {ToolSuccessEcho(arg), ToolClientError, ToolServerError, ToolRaise}

\* Two calls of one agent, or two runs of one workflow, none started yet.
ConcInit ==
    /\ \/ /\ agent \in Agents
          /\ message \in Prompts
          /\ WorkflowOff
          /\ \E m \in Prompts : suspended = NewFrame(agent, m, "off")
       \/ /\ agent = NoAgent
          /\ message = Unset
          /\ nodes = LeadGenerationWorkflow
          /\ wpc = "idle"
          /\ wprompt = Unset
          /\ idx = 0
          /\ next_node_input = Unset
          /\ wresult = Unset
          /\ calls = <<>>
          /\ run_nodes = <<>>
          /\ suspended = NewFrame(NoAgent, Unset, "idle")
    /\ AgentIdle
    /\ LLMIdle

ConcNext ==
    \/ Call
    \/ \E p \in Prompts : WfRun(p)
    \/ \E o \in ConcLLMOutcomes : FirstQueryReturns(o)
    \/ \E tr \in ConcToolOutcomes(tool_arg) : ToolReturns(tr)
    \/ \E o \in ConcLLMOutcomes : CorrectiveQueryReturns(o)
    \/ WfNodeReturns
    \/ Switch

ConcurrentSpec == ConcInit /\ [][ConcNext]_vars
-----------------------------------------------------------------------------
(* The vocabulary of the claims: the tri-state tool result and the normalized *)
(* response, read off the values alone.                                       *)

IsToolSuccess(tr) == HasKey(tr, "success") /\ tr.d["success"] = True
IsServerError(tr) ==
    /\ HasKey(tr, "success") /\ tr.d["success"] = False
    /\ HasKey(tr, "server_error") /\ tr.d["server_error"] = True
IsClientError(tr) ==
    /\ HasKey(tr, "success") /\ tr.d["success"] = False
    /\ HasKey(tr, "server_error") /\ tr.d["server_error"] = False

\* The domain output a success result carries: its "response", or, for a tool
\* that spreads its output over the result, every field but the status flags.
Payload(tr) ==
    IF HasKey(tr, "response") THEN tr.d["response"]
    ELSE Dict([k \in DOMAIN tr.d \ {"success", "server_error"} |-> tr.d[k]])

\* A response with status = success and format = wrapped.
IsWrapped(r) ==
    /\ HasKey(r, "status") /\ r.d["status"] = Str(<<"success">>)
    /\ HasKey(r, "format") /\ r.d["format"] = Str(<<"wrapped">>)
\* A response with status = success that is not wrapped.
IsGood(r) ==
    /\ HasKey(r, "status") /\ r.d["status"] = Str(<<"success">>)
    /\ ~IsWrapped(r)
\* A response that reports status != success.
ReportsFailure(r) == HasKey(r, "status") /\ r.d["status"] # Str(<<"success">>)
\* A query that failed: in transport (it raised), or by its reported status.
QueryFailed(o) == o.t = "raise" \/ ReportsFailure(o)

\* call() returned {success: false, error}.
ReturnedFailure ==
    /\ pc = "done" /\ ~escaped
    /\ IsDict(result) /\ DOMAIN result.d = {"success", "error"}
    /\ result.d["success"] = False
\* call() returned {success: true, data}.
ReturnedSuccess ==
    /\ pc = "done" /\ ~escaped
    /\ IsDict(result) /\ DOMAIN result.d = {"success", "data"}
    /\ result.d["success"] = True

\* The outcome of the latest tool invocation.
LastTool == toolLog[Len(toolLog)].out

\* Whether the text `part` occurs in the text `whole` (both chunk sequences).
Contains(whole, part) ==
    \E i \in 1..(Len(whole) - Len(part) + 1) :
        SubSeq(whole, i, i + Len(part) - 1) = part
-----------------------------------------------------------------------------
(* The claims about StatelessAgent.call, under Spec. *)

\* C1: with a bound tool, once Tool.run has returned a ServerError (success
\* false, server_error true) the call returns {success: false, error}, and
\* never success = true.
C1_ServerErrorFailsCall ==
    \A i \in 1..Len(toolLog) :
        (pc = "done" /\ IsServerError(toolLog[i].out)) => ReturnedFailure

\* C2: with a bound tool, nothing follows a ServerError: the invocation that
\* returned it is the last one, no model query is made after it, and the call
\* is over; so a ServerError on the first invocation leaves exactly one model
\* query and one tool invocation.
C2_NothingAfterServerError ==
    \A i \in 1..Len(toolLog) :
        IsServerError(toolLog[i].out) =>
            /\ pc = "done"
            /\ tool_runs = i
            /\ queries = i

C2_Witness ==
    /\ pc = "done"
    /\ Len(toolLog) = 1 /\ IsServerError(toolLog[1].out)
    /\ queries = 1 /\ tool_runs = 1

\* C3: with a bound tool, when Tool.run returns Success the call returns
\* {success: true, data: P}, P the payload that result carries, whatever the
\* shape of the success result.
C3_SuccessReturnsPayload ==
    (pc = "done" /\ toolLog # <<>> /\ IsToolSuccess(LastTool)) =>
        /\ ReturnedSuccess
        /\ result.d["data"] = Payload(LastTool)

\* C4: with a bound tool, if every model response is successful and not
\* wrapped, and the tool returns ClientError on its first k invocations and
\* Success on invocation k+1, the call makes exactly k+1 model queries and
\* k+1 tool invocations and returns {success: true, data: the tool's payload}.
C4_ClientErrorsThenSuccess ==
    ( /\ pc = "done" /\ toolLog # <<>>
      /\ \A i \in 1..Len(respLog) : IsGood(respLog[i])
      /\ \A i \in 1..(Len(toolLog) - 1) : IsClientError(toolLog[i].out)
      /\ IsToolSuccess(LastTool) ) =>
        /\ queries = Len(toolLog)
        /\ tool_runs = Len(toolLog)
        /\ ReturnedSuccess
        /\ result.d["data"] = Payload(LastTool)

\* C5: a corrective response with status = success and format = wrapped ends
\* the call at once with {success: false, error}, the error text containing
\* the raw text of that response, and the tool is not invoked on it.
C5_WrappedCorrectiveIsTerminal ==
    \A i \in 2..Len(respLog) :
        IsWrapped(respLog[i]) =>
            /\ ReturnedFailure
            /\ Contains(result.d["error"].s, respLog[i].d["response"].s)
            /\ queries = i
            /\ tool_runs = i - 1
            /\ \A j \in 1..Len(toolLog) : toolLog[j].arg # respLog[i]

C5_Witness ==
    /\ pc = "done"
    /\ Len(respLog) = 3 /\ IsGood(respLog[1]) /\ IsWrapped(respLog[3])
    /\ Len(toolLog) = 2

\* C6 as stated: with a bound tool and a model whose first and second
\* responses are both wrapped, the call returns {success: false} after exactly
\* two model queries and zero tool invocations.
C6_Original ==
    ( /\ pc = "done" /\ agent.is_in_workflow
      /\ Len(respLog) >= 2 /\ IsWrapped(respLog[1]) /\ IsWrapped(respLog[2]) ) =>
        /\ ReturnedFailure
        /\ queries = 2
        /\ tool_runs = 0

\* C6 as amended: when the first two responses of a call with a bound tool are
\* both wrapped, the call returns {success: false} after exactly two model
\* queries and exactly one tool invocation: the first wrapped response is
\* tolerated, its raw text is handed to the tool, and the second query is the
\* corrective one for the tool's rejection of it.
C6_TwoWrappedOneToolRun ==
    ( /\ agent.is_in_workflow
      /\ Len(respLog) >= 2 /\ IsWrapped(respLog[1]) /\ IsWrapped(respLog[2]) ) =>
        /\ ReturnedFailure
        /\ queries = 2
        /\ tool_runs = 1
        /\ toolLog[1].arg = respLog[1].d["response"]
        /\ ~IsToolSuccess(toolLog[1].out) /\ ~IsServerError(toolLog[1].out)

C6_Witness ==
    /\ pc = "done" /\ agent.is_in_workflow
    /\ Len(respLog) = 2 /\ IsWrapped(respLog[1]) /\ IsWrapped(respLog[2])
    /\ Len(toolLog) = 1 /\ IsClientError(toolLog[1].out)

\* C7: if the first response of a call reports status != success, the call
\* returns {success: false, error} at once, with or without a bound tool: no
\* tool invocation, no further model query, never success = true.
C7_FirstFailureFailsCall ==
    (respLog # <<>> /\ ReportsFailure(respLog[1])) =>
        /\ ReturnedFailure
        /\ queries = 1
        /\ tool_runs = 0

\* C8: no exception leaves call(): every call that ends, also one in which
\* llm.query or next_node.run raised at some iteration, returns
\* {success: true, data} or {success: false, error}.
C8_NoExceptionEscapes ==
    pc = "done" => (ReturnedSuccess \/ ReturnedFailure)

C8_Witness ==
    /\ pc = "done"
    /\ Len(toolLog) = 2 /\ toolLog[2].out.t = "raise"
    /\ ReturnedFailure

\* C9: a failed corrective query (the second or a later one, failing in
\* transport or reporting status != success) ends the call with
\* {success: false, error}: the failed response is not handed to the tool and
\* no further query is made.
C9_FailedCorrectiveEndsCall ==
    \A i \in 2..Len(respLog) :
        QueryFailed(respLog[i]) =>
            /\ ReturnedFailure
            /\ queries = i
            /\ tool_runs = i - 1

-----------------------------------------------------------------------------
(* The claims about Workflow.run, under WorkflowSpec. *)

\* C10: the run is fail-fast: when the call of stage i returns success =
\* false, no later stage is invoked in that run, and the value run() returns
\* is that failure result.
C10_FailFast ==
    \A i \in 1..Len(calls) :
        calls[i].out = "failure" =>
            /\ wpc = "done"
            /\ Len(calls) = i /\ calls[i].stage = i /\ idx = i
            /\ wresult = result
            /\ wresult.d["success"] = False

C10_Witness ==
    /\ wpc = "done"
    /\ Len(nodes) = 3
    /\ Len(calls) = 2 /\ calls[2].out = "failure"

\* A value with nothing in it: no value, or a container without elements.
IsEmpty(v) == v \in {None, EmptyDict, List(<<>>), Str(<<>>)}

\* run() returned a PipelineResult: a boolean success, with data when it is
\* true and error when it is false.
IsPipelineResult(v) ==
    /\ HasKey(v, "success")
    /\ v.d["success"] \in {True, False}
    /\ v.d["success"] = True => HasKey(v, "data")
    /\ v.d["success"] = False => HasKey(v, "error")

C12_FailuresBecomeFailureValues ==
    ( /\ wpc = "done" /\ calls # <<>>
      /\ calls[Len(calls)].out \in {"raised", "no_success_key"} ) =>
        /\ HasKey(wresult, "success")
        /\ wresult.d["success"] = False

\* C13: every value run() returns is a PipelineResult, for every node list,
\* the empty one included.
C13_RunReturnsPipelineResult ==
    wpc = "done" => IsPipelineResult(wresult)

-----------------------------------------------------------------------------
(* The claims about _ensure_json_response, under LLMSpec. *)

\* The candidate of each recovery step, in order: the whole text, the fenced
\* block, the first array span, the first object span.
StepCandidates(t) ==
    << [found |-> TRUE, group |-> t], json_match(t, json_patterns),
       array_match(t), object_match(t) >>
\* Step k finds a candidate and the candidate parses.
StepParses(t, k) ==
    /\ StepCandidates(t)[k].found
    /\ JsonLoads(StepCandidates(t)[k].group).ok

\* The envelope of the wrapped form around the raw text t.
WrappedEnvelope(t) ==
    Dict([response |-> Str(t), status |-> Str(<<"success">>),
          format |-> Str(<<"wrapped">>)])

\* r is a NormalizedResponse with status success that carries value v, and is
\* not flagged wrapped.
CarriesValue(r, v) ==
    /\ HasKey(r, "status") /\ r.d["status"] = Str(<<"success">>)
    /\ HasKey(r, "response") /\ r.d["response"] = v
    /\ ~IsWrapped(r)

\* Some span of t parses as a value.
HasValidSpan(t) ==
    \E i \in 1..Len(t), j \in 1..Len(t) :
        i <= j /\ JsonLoads(SubSeq(t, i, j)).ok

\* C14: the recovery steps are tried in order and the first step whose
\* candidate parses wins; the wrapped form is produced only if every step
\* fails, so a step whose candidate is found but does not parse is followed by
\* the remaining steps.
C14_FirstParsingStepWins ==
    perplexity_response # Unset =>
        LET wins == {k \in DOMAIN StepCandidates(llm_text) : StepParses(llm_text, k)}
        IN  IF wins = {}
              THEN perplexity_response = WrappedEnvelope(llm_text)
              ELSE CarriesValue(perplexity_response,
                       JsonLoads(StepCandidates(llm_text)[Least(wins)].group).v)

\* C15: round trip: for every structured value V, normalizing the
\* serialization of V gives, in either client, a response with status success
\* whose value is V and whose format is native (the whole text parsed).
C15_RoundTrip ==
    \A v \in StructuredValues :
        llm_text = JsonDumps(v) =>
            /\ Recover(llm_text).step = "whole"
            /\ perplexity_response # Unset => CarriesValue(perplexity_response, v)
            /\ gemini_response # Unset => CarriesValue(gemini_response, v)

C17_UnrecoverableFallback ==
    ~HasValidSpan(llm_text) =>
        /\ perplexity_response # Unset =>
               perplexity_response = WrappedEnvelope(llm_text)
        /\ gemini_response # Unset =>
               gemini_response = WrappedEnvelope(llm_text)

\* C18: both clients apply the same normalization: for every text the two
\* return the same response (status, format, value, envelope shape).
C18_SameNormalization ==
    (perplexity_response # Unset /\ gemini_response # Unset) =>
        gemini_response = perplexity_response

-----------------------------------------------------------------------------
(* The feedback loop without a counter, under Spec. *)

\* Every response so far is successful and not wrapped, and every tool
\* invocation so far returned a ClientError.
OnlyClientErrors ==
    /\ pc # "idle" /\ agent.is_in_workflow
    /\ \A i \in 1..Len(respLog) : IsGood(respLog[i])
    /\ \A j \in 1..Len(toolLog) : IsClientError(toolLog[j].out)

\* C19: the feedback loop has no maximum attempt count: as long as the tool
\* returns ClientError on every invocation and every model response is
\* successful and not wrapped, the call has not returned, and each ClientError
\* is followed by one more query: the queries and the tool invocations grow
\* together, with nothing but the tool and the model to stop them.
C19_NoAttemptCount ==
    OnlyClientErrors =>
        /\ pc \in {"query", "tool", "requery"}
        /\ queries = Len(toolLog) + 1
        /\ pc = "tool" <=> tool_runs = queries

C19_Witness ==
    /\ OnlyClientErrors
    /\ pc = "tool"
    /\ Len(toolLog) = MaxQueries - 1
    /\ queries = MaxQueries /\ tool_runs = MaxQueries

-----------------------------------------------------------------------------
(* Two executions on the same objects, under ConcurrentSpec. *)

\* The argument of the j-th next_node.run of a call that runs alone: the
\* payload of its first response, then its j-th response.
ArgAlone(rl, j) == IF j = 1 THEN Get(rl[1], "response", None) ELSE rl[j]

\* The value a call that runs alone returns after the outcomes rl of its
\* queries and tl of its tool invocations.
ResultAlone(a, rl, tl) ==
    LET o == rl[Len(rl)]
    IN  IF Len(tl) = Len(rl)
          THEN IF tl[Len(tl)].out.t = "raise" THEN Caught(tl[Len(tl)].out)
               ELSE Ok(ReturnData(tl[Len(tl)].out))
        ELSE IF o.t = "raise" THEN Caught(o)
        ELSE IF Len(rl) > 1 THEN GiveUpResult(a, o)
        ELSE IF ~a.is_in_workflow THEN Ok(o)
        ELSE IF ~IsDict(o) THEN Caught(AttributeError(o))
        ELSE Caught(StatusError(a, o))

\* The coroutine with locals f is where a call that runs alone is after the
\* same outcomes: as many queries and invocations, each invocation on its own
\* latest response, each local holding its own latest outcome.
CallAsAlone(f) ==
    LET nq == Len(f.respLog)
        nt == Len(f.toolLog)
    IN  /\ f.pc \in {"idle", "query"} =>
               nq = 0 /\ nt = 0 /\ f.result = Unset /\ f.tool_response = Unset
        /\ f.pc = "tool" => nq = nt + 1
        /\ f.pc = "requery" => nq = nt /\ nt > 0 /\ LoopCondition(f.tool_response)
        /\ f.pc = "done" => nq \in {nt, nt + 1} /\ nq > 0 /\ ~f.escaped
        /\ (f.pc = "done" /\ f.result.d["success"] = True /\ f.agent.is_in_workflow) =>
               f.result = Ok(ReturnData(f.tool_response))
        /\ f.wpc = "off" =>
               /\ \A j \in 1..nt : f.toolLog[j].arg = ArgAlone(f.respLog, j)
               /\ f.pc = "tool" => /\ f.tool_arg = ArgAlone(f.respLog, nq)
                                   /\ f.response = ArgAlone(f.respLog, nq)
               /\ (f.pc = "tool" /\ nt > 0) => f.tool_response = f.toolLog[nt].out
               /\ f.pc = "requery" => f.tool_response = f.toolLog[nt].out
               /\ f.pc = "done" => f.result = ResultAlone(f.agent, f.respLog, f.toolLog)

\* The coroutine with locals f is where a run that is alone on the workflow
\* is: at the stage its calls count, on that stage's node, with the input made
\* of its own prompt and its own carried data, returning what it carried.
RunAsAlone(f) ==
    f.wpc # "off" =>
        /\ f.wpc = "idle" => f.calls = <<>> /\ f.idx = 0
        /\ f.wpc = "await" =>
               /\ f.idx = Len(f.calls) /\ f.idx \in 1..Len(nodes)
               /\ f.agent = nodes[f.idx]
               /\ f.message = NodeInput(f.wprompt,
                                  IF f.idx = 1 THEN EmptyDict
                                  ELSE f.next_node_input.d["data"])
        /\ f.wpc = "done" =>
               /\ f.wresult = f.next_node_input
               /\ f.idx = Len(f.calls)
               /\ f.calls # <<>> => f.wresult = f.result

\* C20: two executions on the same Workflow and Agent objects, interleaved at
\* their awaits of llm.query in any way, each make the queries and the tool
\* invocations, and return the result, of an execution that runs alone; and no
\* step of either writes a field of the workflow or of an agent in it.
C20_ExecutionsDoNotInterfere ==
    /\ [](CallAsAlone(Frame) /\ CallAsAlone(suspended))
    /\ [](RunAsAlone(Frame) /\ RunAsAlone(suspended))
    /\ [][nodes' = nodes /\ (wpc = "off" => agent' = agent)]_vars

\* Two calls of one agent are both inside the feedback loop, each waiting for
\* its own corrective query, with different messages and different histories.
C20_Witness ==
    /\ wpc = "off" /\ pc = "requery" /\ suspended.pc = "requery"
    /\ message # suspended.message
    /\ Len(toolLog) = 2 /\ Len(suspended.toolLog) = 1

-----------------------------------------------------------------------------
(* More claims about StatelessAgent.call, under Spec. *)

\* The value (structured payload) a model response carries.
ValueOf(r) == IF HasKey(r, "response") THEN r.d["response"] ELSE None

\* A tool result that is no well-formed tri-state value: no record, or a
\* record without a success field.
IsMalformed(tr) == tr.t # "raise" /\ ~HasKey(tr, "success")

\* C21: on every tool invocation of a call, the first and every corrective
\* one alike, the argument of Tool.run is the value (structured payload) of
\* the most recent model response, in the same form for all invocations.
C21_ToolGetsLatestValue ==
    \A j \in 1..Len(toolLog) : toolLog[j].arg = ValueOf(respLog[j])

\* C22: a tool result that is no well-formed tri-state value sends the agent
\* to the corrective query as a ClientError does, and is never reported as
\* success: right after such a result the call is waiting for a corrective
\* response.
C22_MalformedResultIsRetried ==
    ( /\ toolLog # <<>> /\ IsMalformed(LastTool)
      /\ Len(respLog) = Len(toolLog) ) =>
        /\ pc = "requery"
        /\ ~ReturnedSuccess

\* C23: with a bound tool a wrapped response to the first query is tolerated:
\* the call does not end there but invokes the tool on its raw text; and a
\* call that ends reporting a wrapped response does so for the response of a
\* corrective query.
C23_FirstWrappedIsTolerated ==
    /\ ( /\ agent.is_in_workflow
         /\ respLog # <<>> /\ IsWrapped(respLog[1]) ) =>
           /\ tool_runs >= 1
           /\ toolLog = <<>> => (pc = "tool" /\ tool_arg = respLog[1].d["response"])
           /\ toolLog # <<>> => toolLog[1].arg = respLog[1].d["response"]
    /\ ( /\ pc = "done" /\ agent.is_in_workflow
         /\ Len(respLog) > Len(toolLog) /\ IsWrapped(respLog[Len(respLog)]) ) =>
           /\ Len(respLog) >= 2
           /\ result = GiveUpResult(agent, respLog[Len(respLog)])

C23_Witness ==
    /\ pc = "done" /\ agent.is_in_workflow
    /\ Len(respLog) = 3 /\ IsWrapped(respLog[1]) /\ IsGood(respLog[2])
    /\ IsWrapped(respLog[3])
    /\ Len(toolLog) = 2 /\ toolLog[1].arg = Str(Prose)

\* C29: in every state of a call with a bound tool, queries and tool
\* invocations alternate, starting with a query: the tool is not invoked
\* before a response has come back, and the tool invocations are as many as
\* the queries or one less.
C29_QueriesAndToolRunsAlternate ==
    (pc # "idle" /\ agent.is_in_workflow) =>
        /\ queries >= 1
        /\ tool_runs \in {queries, queries - 1}
        /\ pc = "tool" => (Len(respLog) = tool_runs /\ tool_arg # Unset)
        /\ pc = "requery" => Len(toolLog) = Len(respLog)
        /\ Len(toolLog) \in {Len(respLog), Len(respLog) - 1}

C29_Witness ==
    /\ pc = "tool" /\ agent.is_in_workflow
    /\ queries = 3 /\ tool_runs = 3 /\ Len(toolLog) = 2

-----------------------------------------------------------------------------
(* The specification of the prompt of a call: an agent with include_fields, *)
(* as EmailAndPhoneNumberGeneratorAgent has, is called with a structured    *)
(* message, as Workflow.run builds it, and before_call renders it.          *)

\* The data a previous node hands on: a lead, and a list of leads.
Lead ==
    Dict([company_name |-> Str(<<"Acme">>),
          details |-> Dict([city |-> Str(<<"Pune">>)])])
Leads == List(<<Lead>>)

\* The messages an agent is called with: the input of a node, a list, a str.
Messages ==
    {NodeInput(Str(<<"find leads in Pune">>), d) : d \in {Lead, Leads}}
    \cup {Leads, Str(<<"find leads in Pune">>)}

\* The field names an include_fields list is made of.
FieldNames ==
    {Str(<<"User instructions">>), Str(<<"Input">>), Str(<<"company_name">>),
     Str(<<"Input", ".", "details">>),
     Str(<<"Input", ".", "details", ".", "city">>),
     Str(<<"Input", "[1]", ".", "company_name">>)}

\* The values of include_fields: the default, and the lists of field names.
IncludeFields == {None} \cup {List(l) : l \in SeqsUpTo(FieldNames, MaxFields)}

PromptInit ==
    /\ agent \in {[name |-> "EmailAndPhoneNumberGeneratorAgent",
                   is_in_workflow |-> TRUE, include_fields |-> f] :
                      f \in IncludeFields}
    /\ message \in Messages
    /\ AgentIdle
    /\ WorkflowOff
    /\ LLMIdle
    /\ suspended = Unset

PromptNext == Call

PromptSpec == PromptInit /\ [][PromptNext]_vars

-----------------------------------------------------------------------------
(* Claims about the prompt, under PromptSpec. *)

\* The field paths of all keys of a structured value.
RECURSIVE KeyPaths(_, _)
KeyPaths(data, current_path) ==
    IF data.t = "dict"
      THEN UNION { LET field_path == IF current_path = <<>> THEN <<k>>
                                     ELSE current_path \o <<".", k>>
                   IN  {field_path} \cup KeyPaths(data.d[k], field_path)
                   : k \in DOMAIN data.d }
    ELSE IF data.t = "list"
      THEN UNION { KeyPaths(data.l[i], current_path \o <<Index(i)>>)
                   : i \in 1..Len(data.l) }
    ELSE {}

\* The field paths of the keys a readable text renders.
RenderedPaths(text) ==
    {text.lines[i].path : i \in {j \in 1..Len(text.lines) : text.lines[j].key # ""}}

\* P is the named field, or lies below it: in one of its keys, or in an item
\* of its list.
IsOrDescends(P, field) ==
    \/ P = field
    \/ /\ Len(P) > Len(field)
       /\ StartsWith(P, field)
       /\ P[Len(field) + 1] # field[Len(field)]
       /\ \/ P[Len(field) + 1] = "."
          \/ \E i \in 1..3 : P[Len(field) + 1] = Index(i)

\* P is one of the named fields of the agent, or a descendant of one.
IsNamed(self, P) ==
    \E i \in 1..Len(self.include_fields.l) :
        IsOrDescends(P, self.include_fields.l[i].s)

\* The call has rendered a structured message under configured include_fields.
Filtered ==
    /\ pc # "idle"
    /\ agent.include_fields # None
    /\ message.t \in {"dict", "list"}

\* C24: when include_fields is configured and the message is structured, a key
\* at path P is rendered into the prompt if and only if P is a named field or
\* a descendant of a named field; every other key is left out.
C24_RenderedIffNamedOrDescendant ==
    Filtered =>
        \A P \in KeyPaths(message, <<>>) :
            (P \in RenderedPaths(processed_message)) <=> IsNamed(agent, P)

-----------------------------------------------------------------------------
(* The specification of a Workflow.run whose node list is changed by        *)
(* add_node and remove_node.  Both are plain methods: they run when no run  *)
(* is in flight, or while the run is suspended at an await of a node's call. *)

\* The run is not executing: it has not started, it is over, or it is
\* suspended at an await inside `await node.call(node_input)`.
RunNotExecuting ==
    \/ wpc \in {"idle", "done"}
    \/ wpc = "await" /\ pc \in {"query", "requery", "call"}

\* l.remove(x): l without the first occurrence of x.
Remove(l, x) ==
    LET i == CHOOSE j \in 1..Len(l) :
                 l[j] = x /\ \A k \in 1..(j - 1) : l[k] # x
    IN  SubSeq(l, 1, i - 1) \o SubSeq(l, i + 1, Len(l))

\* workflow.add_node(node)
add_node(node) ==
    /\ RunNotExecuting
    /\ Len(nodes) < MaxNodes
    /\ nodes' = Append(nodes, node)
    /\ UNCHANGED <<agentVars, wpc, wprompt, idx, next_node_input, wresult,
                   calls, run_nodes, llmVars, suspended>>

\* workflow.remove_node(node), for a node of the list: list.remove raises
\* ValueError to the caller for any other, and the list is left as it was.
remove_node(node) ==
    /\ RunNotExecuting
    /\ \E j \in 1..Len(nodes) : nodes[j] = node
    /\ nodes' = Remove(nodes, node)
    /\ UNCHANGED <<agentVars, wpc, wprompt, idx, next_node_input, wresult,
                   calls, run_nodes, llmVars, suspended>>

\* The nodes the lists of this specification are made of.
MutationNodes == {AnyNode} \cup {a \in Agents : a.is_in_workflow}

MutationInit ==
    /\ WfInit
    /\ nodes \in SeqsUpTo(MutationNodes, MaxNodes - 1)

MutationNext ==
    \/ \E p \in Prompts : WfRun(p)
    \/ \E o \in ConcLLMOutcomes : FirstQueryReturns(o)
    \/ \E tr \in ConcToolOutcomes(tool_arg) : ToolReturns(tr)
    \/ \E o \in ConcLLMOutcomes : CorrectiveQueryReturns(o)
    \/ \E o \in AnyNodeOutcomes : AnyNodeCallEnds(o)
    \/ WfNodeReturns
    \/ \E node \in MutationNodes : add_node(node)
    \/ \E node \in MutationNodes : remove_node(node)

MutationSpec == MutationInit /\ [][MutationNext]_vars

-----------------------------------------------------------------------------
(* Claims about the node list, under MutationSpec. *)

\* C28: a run that has started invokes exactly the agents of the node list as
\* it was when the run started, in that order and each at most once, also when
\* add_node or remove_node is called while the run is suspended in a stage:
\* the node called at stage i is the i-th node of that list, and a run whose
\* calls all succeeded has called every node of that list.
C28_RunInvokesNodesAsAtStart ==
    /\ wpc = "await" =>
           /\ idx <= Len(run_nodes)
           /\ agent = run_nodes[idx]
    /\ ( /\ wpc = "done"
         /\ calls # <<>>
         /\ calls[Len(calls)].out = "success" ) =>
           Len(calls) = Len(run_nodes)

-----------------------------------------------------------------------------
(* The tools of the repository, and the agents its controllers and workflow *)
(* build on them.  A tool is its class, its name and its input_schema; an   *)
(* input_schema is the sequence of its fields, in the order of the dict.    *)

Schema(fields) == [t |-> "dict", fields |-> fields]
FieldInfo(name, description) ==
    [name |-> name, type |-> "string", required |-> TRUE,
     description |-> description]

FormatInitialLeadsTool ==
    [class |-> "FormatInitialLeadsTool", name |-> "format_initial_leads",
     input_schema |-> Schema(<<
        FieldInfo("company_name", "The name of the company"),
        FieldInfo("company_description", "A brief description of what the company does"),
        FieldInfo("location", "The physical location or address of the company"),
        FieldInfo("website", "The website of the company"),
        FieldInfo("linkedin_url", "The LinkedIn URL of the company")>>)]
MailSenderTool ==
    [class |-> "MailSenderTool", name |-> "mail_sender", input_schema |-> None]
ExportLeadsToDocTool ==
    [class |-> "ExportLeadsToDocTool", name |-> "ExportLeadsToDocTool",
     input_schema |-> None]

\* _get_example_value for a field of type "string": by the word the field's
\* name holds.
get_example_value(field_name) ==
    CASE field_name \in {"company_name", "company_description"} ->
             "\"Acme Corporation\""
      [] field_name = "website" -> "\"https://www.example.com\""
      [] field_name = "location" -> "\"123 Business St, City, State 12345\""
      [] OTHER -> "\"example_string\""

\* The lines of the field definitions, and of the example.
RECURSIVE FieldLines(_)
FieldLines(fields) ==
    IF fields = <<>> THEN <<>>
    ELSE <<"        \"", fields[1].name, "\": \"", fields[1].type,
           IF fields[1].required THEN " (required)" ELSE " (optional)",
           " - ", fields[1].description, "\"\n">>
         \o FieldLines(Tail(fields))
RECURSIVE ExampleLines(_)
ExampleLines(fields) ==
    IF fields = <<>> THEN <<>>
    ELSE <<"        \"", fields[1].name, "\": ",
           get_example_value(fields[1].name), "\n">>
         \o ExampleLines(Tail(fields))

\* Tool._generate_dynamic_schema_prompt
generate_dynamic_schema_prompt(self) ==
    IF self.input_schema.t # "dict"
      THEN <<"Invalid input schema: self.input_schema must be a dictionary">>
      ELSE <<self.name, " Input Schema:\n",
             "The input should be a list of dictionaries with the following fields:\n",
             "[\n    {\n">>
           \o FieldLines(self.input_schema.fields)
           \o <<"    }\n]\n\nExample:\n[\n    {\n">>
           \o ExampleLines(self.input_schema.fields)
           \o <<"    }\n]">>

\* Tool._get_custom_input_schema_prompt
get_custom_input_schema_prompt(self) ==
    <<self.name, " Input Schema: No schema defined. Override _get_custom_input_schema_prompt() for custom implementation.">>

\* get_input_schema_prompt: the override of MailSenderTool and of
\* ExportLeadsToDocTool, and Tool's for a class that has none.
get_input_schema_prompt(self) ==
    CASE self.class = "MailSenderTool" ->
             <<"\nMail Sender Tool Input Schema:\n",
               "The input should be a dictionary with the following required fields:\n",
               "- 'to': str - Recipient email address\n",
               "- 'subject': str - Email subject line\n",
               "- 'body': str - Email body content (plain text)\n">>
      [] self.class = "ExportLeadsToDocTool" ->
             <<"\n        ExportLeadsToDocTool Input Schema:\n",
               "        The input should be a dictionary with the following required fields:\n">>
      [] OTHER ->
             IF self.input_schema # None
               THEN generate_dynamic_schema_prompt(self)
               ELSE get_custom_input_schema_prompt(self)

\* StatelessAgent.__init__
StatelessAgent(name, instructions, llm_type, next_node, include_fields) ==
    LET base == <<"You are ", name, ". ">> \o instructions
    IN  [name |-> name,
         instructions |->
             IF next_node # None
               THEN base \o <<"\n\n">> \o generate_dynamic_schema_prompt(next_node)
               ELSE base,
         llm_type |-> llm_type,
         next_node |-> next_node,
         include_fields |-> include_fields,
         is_in_workflow |-> next_node # None]

\* The names and instructions the repository constructs its agents with.
Lucifer == <<"Lucifer", <<>>>>
LeadGenerationAgent ==
    <<"LeadGenerationAgent",
      <<"You are a lead generation agent that can generate leads for a company by doing webscrapping.">>>>
EmailAndPhoneNumberGeneratorAgent ==
    <<"EmailAndPhoneNumberGeneratorAgent",
      <<"You will receive a Leads data as input and you will have to extract emails, phone number.">>>>

\* The agents of this specification: those of the controllers and of the
\* workflow, and with them every pairing of a client with a tool, or with no
\* tool, that the constructor admits.
ControllerAgents ==
    {StatelessAgent(who[1], who[2], llm_type, next_node, None) :
        who \in {Lucifer, LeadGenerationAgent},
        llm_type \in {"gemini", "perplexity"},
        next_node \in {None, MailSenderTool, ExportLeadsToDocTool,
                       FormatInitialLeadsTool}}
    \cup {StatelessAgent(EmailAndPhoneNumberGeneratorAgent[1],
                         EmailAndPhoneNumberGeneratorAgent[2],
                         "perplexity", ExportLeadsToDocTool,
                         List(<<Str(<<"User instructions">>), Str(<<"Input">>),
                                Str(<<"company_name">>), Str(<<"website">>),
                                Str(<<"linkedin_url">>)>>))}

-----------------------------------------------------------------------------
(* Tool.run of the three tools.  What a run meets outside its input is the  *)
(* environment: the SMTP credentials and server, the file system.           *)

Environments ==
    {"ok", "no_credentials", "authentication_failed", "recipients_refused",
     "smtp_error", "connection_refused", "write_failed"}

\* Inputs as the three tools' descriptions ask for them.
MailInput ==
    Dict([to |-> Str(<<"a@b.co">>), subject |-> Str(<<"hi">>),
          body |-> Str(<<"the offer">>)])
InitialLeads ==
    List(<<Dict([company_name |-> Str(<<"Acme">>),
                 company_description |-> Str(<<"makes anvils">>),
                 location |-> Str(<<"Pune">>),
                 website |-> Str(<<"https://acme.in">>),
                 linkedin_url |-> Str(<<"https://linkedin.com/company/acme">>)])>>)
ExportableLeads ==
    List(<<Dict([company_name |-> Str(<<"Acme">>),
                 website |-> Str(<<"https://acme.in">>),
                 location |-> Str(<<"Pune">>),
                 phone_number |-> List(<<Str(<<"+91-20-5550100">>)>>),
                 email |-> List(<<Str(<<"sales@acme.in">>)>>)])>>)
\* Leads that pass ExportLeadsToDocTool's validation with no phone numbers.
UncontactableLeads ==
    List(<<Dict([company_name |-> Str(<<"Acme">>),
                 website |-> Str(<<"https://acme.in">>),
                 location |-> Str(<<"Pune">>),
                 phone_number |-> None,
                 email |-> List(<<>>)])>>)
ToolInputs == {MailInput, InitialLeads, ExportableLeads, UncontactableLeads}

\* s.strip() is empty
IsBlank(v) == \A i \in 1..Len(v.s) : v.s[i] \in {"", " ", "\n"}

\* Tool._validate_dynamic_schema on one item, from field i of the schema on:
\* the required fields are checked first, then the type of each field.
RECURSIVE MissingField(_, _, _)
MissingField(fields, item, i) ==
    IF i > Len(fields) THEN ""
    ELSE IF fields[i].required /\ fields[i].name \notin DOMAIN item.d
      THEN fields[i].name
    ELSE MissingField(fields, item, i + 1)
RECURSIVE BadField(_, _, _)
BadField(fields, item, i) ==
    IF i > Len(fields) THEN ""
    ELSE IF /\ fields[i].name \in DOMAIN item.d
            /\ LET field_value == item.d[fields[i].name]
               IN  \/ field_value.t # "str"
                   \/ IsBlank(field_value) /\ fields[i].required
      THEN fields[i].name
    ELSE BadField(fields, item, i + 1)
RECURSIVE ValidateItems(_, _, _)
ValidateItems(fields, input_data, i) ==
    IF i > Len(input_data.l) THEN True
    ELSE LET item == input_data.l[i]
         IN  IF item.t # "dict"
               THEN Str(<<"Item at index ", ToString(i - 1), " must be a dictionary">>)
             ELSE IF MissingField(fields, item, 1) # ""
               THEN Str(<<"Item at index ", ToString(i - 1),
                          " is missing required field: ",
                          MissingField(fields, item, 1)>>)
             ELSE IF BadField(fields, item, 1) # ""
               THEN Str(<<"Item at index ", ToString(i - 1), ": ",
                          BadField(fields, item, 1),
                          " must be a non-empty string">>)
             ELSE ValidateItems(fields, input_data, i + 1)

\* Tool._validate_dynamic_schema: True, or the error message.
validate_dynamic_schema(self, input_data) ==
    IF input_data.t # "list"
      THEN Str(<<"Input data must be a list of dictionaries">>)
    ELSE IF input_data.l = <<>>
      THEN Str(<<"Input data cannot be an empty list">>)
    ELSE ValidateItems(self.input_schema.fields, input_data, 1)

\* The type checks of MailSenderTool.validate_input_schema, in their order:
\* the field, the type it must have, and that type's name in the message.
MailFieldTypes ==
    << <<"to", "str", "string">>, <<"to_list", "list", "list">>,
       <<"subject", "str", "string">>, <<"body", "str", "string">>,
       <<"cc", "list", "list">>, <<"bcc", "list", "list">>,
       <<"is_html", "bool", "boolean">> >>

\* The first of these checks that input_data fails, or 0.
WrongType(input_data) ==
    LET bad == {i \in 1..Len(MailFieldTypes) :
                   /\ MailFieldTypes[i][1] \in DOMAIN input_data.d
                   /\ input_data.d[MailFieldTypes[i][1]].t # MailFieldTypes[i][2]}
    IN  IF bad = {} THEN 0 ELSE CHOOSE i \in bad : \A j \in bad : i <= j

MailValidation(success, server_error, error) ==
    Dict([success |-> success, server_error |-> server_error, error |-> error])

\* MailSenderTool.validate_input_schema: a dict in every case.
MailSender_validate_input_schema(input_data, env) ==
    IF input_data.t # "dict"
      THEN MailValidation(False, True,
               Str(<<"Input must be a dictionary. Current input type: ",
                     TypeName(input_data), " ">> \o StrOf(input_data)))
    ELSE LET missing_fields ==
                 (IF "subject" \notin DOMAIN input_data.d THEN <<"subject">> ELSE <<>>)
                 \o (IF "body" \notin DOMAIN input_data.d THEN <<"body">> ELSE <<>>)
                 \o (IF /\ "to" \notin DOMAIN input_data.d
                        /\ "to_list" \notin DOMAIN input_data.d
                       THEN <<"either 'to' or 'to_list'">> ELSE <<>>)
             w == WrongType(input_data)
         IN  IF missing_fields # <<>>
               THEN MailValidation(False, False,
                        Str(<<"Missing required fields: ">> \o missing_fields
                            \o <<". ">> \o get_input_schema_prompt(MailSenderTool)))
             ELSE IF w # 0
               THEN MailValidation(False, False,
                        Str(<<"Field '", MailFieldTypes[w][1], "' must be a ",
                              MailFieldTypes[w][3], ". Current type: ",
                              TypeName(input_data.d[MailFieldTypes[w][1]])>>))
             ELSE IF env = "no_credentials"
               THEN MailValidation(False, True,
                        Str(<<"SMTP credentials not configured. Please set SMTP_USERNAME and SMTP_PASSWORD environment variables. ">>
                            \o get_input_schema_prompt(MailSenderTool)))
             ELSE MailValidation(True, False, None)

\* MailSenderTool.run
MailSender_run(input_data, env) ==
    LET validation_result == MailSender_validate_input_schema(input_data, env)
        recipients ==
            (IF "to" \in DOMAIN input_data.d THEN <<input_data.d["to"]>>
             ELSE input_data.d["to_list"].l)
            \o (IF "cc" \in DOMAIN input_data.d THEN input_data.d["cc"].l ELSE <<>>)
            \o (IF "bcc" \in DOMAIN input_data.d THEN input_data.d["bcc"].l ELSE <<>>)
    IN  IF validation_result.d["success"] = False
          THEN Dict([success |-> False, server_error |-> False,
                     error |-> validation_result])
        ELSE CASE env = "authentication_failed" ->
                      Dict([success |-> False,
                            error |-> Str(<<"SMTP authentication failed: ",
                                            "(535, b'Username and Password not accepted')">>)])
               [] env = "recipients_refused" ->
                      Dict([success |-> False,
                            error |-> Str(<<"Recipients refused: ",
                                            "{'a@b.co': (550, b'User unknown')}">>)])
               [] env = "smtp_error" ->
                      Dict([success |-> False,
                            error |-> Str(<<"SMTP error: ", "Connection unexpectedly closed">>)])
               [] env = "connection_refused" -> ToolRaise
               [] OTHER ->
                      Dict([success |-> True,
                            message |-> Str(<<"Email sent successfully to ",
                                              ToString(Len(recipients)),
                                              " recipient(s)">>),
                            recipients |-> List(recipients)])

\* The fields ExportLeadsToDocTool.validate_input_schema requires of a lead,
\* in the order it looks for them.
LeadKeys == <<"company_name", "website", "location", "phone_number", "email">>

\* The checks on the leads i.. of the list.
RECURSIVE ValidateLeads(_, _)
ValidateLeads(input_data, i) ==
    IF i > Len(input_data.l) THEN True
    ELSE LET lead == input_data.l[i]
             missing == {k \in 1..Len(LeadKeys) : LeadKeys[k] \notin DOMAIN lead.d}
         IN  IF lead.t # "dict"
               THEN Str(<<"Lead at index ", ToString(i - 1), " must be a dictionary">>)
             ELSE IF missing # {}
               THEN Str(<<"Lead at index ", ToString(i - 1),
                          " is missing required field: ",
                          LeadKeys[CHOOSE k \in missing : \A j \in missing : k <= j]>>)
             ELSE IF \/ lead.d["company_name"].t # "str"
                     \/ IsBlank(lead.d["company_name"])
               THEN Str(<<"Lead at index ", ToString(i - 1),
                          ": company_name must be a non-empty string">>)
             ELSE ValidateLeads(input_data, i + 1)

\* ExportLeadsToDocTool.validate_input_schema: True, or the error message.
Export_validate_input_schema(input_data) ==
    IF input_data.t # "list"
      THEN Str(<<"Input data must be a list of lead dictionaries">>)
    ELSE IF input_data.l = <<>>
      THEN Str(<<"Input data cannot be an empty list">>)
    ELSE ValidateLeads(input_data, 1)

\* The TypeError of "; ".join(v): v is no iterable, or an item of it is no
\* str; none for a str, a dict, or a list of str.
JoinError(v) ==
    IF v.t \in {"str", "dict"} THEN <<>>
    ELSE IF v.t # "list" THEN <<"can only join an iterable">>
    ELSE LET bad == {i \in 1..Len(v.l) : v.l[i].t # "str"}
         IN  IF bad = {} THEN <<>>
             ELSE LET i == CHOOSE k \in bad : \A j \in bad : k <= j
                  IN  <<"sequence item ", ToString(i - 1),
                        ": expected str instance, ", TypeName(v.l[i]), " found">>

\* The exception the reading of the leads i.. raises: the first join of a
\* lead's phone_number or email that fails; none when every join succeeds.
RECURSIVE ReadLeads(_, _)
ReadLeads(input_data, i) ==
    IF i > Len(input_data.l) THEN <<>>
    ELSE LET lead == input_data.l[i]
         IN  IF JoinError(lead.d["phone_number"]) # <<>>
               THEN JoinError(lead.d["phone_number"])
             ELSE IF JoinError(lead.d["email"]) # <<>>
               THEN JoinError(lead.d["email"])
             ELSE ReadLeads(input_data, i + 1)

\* ExportLeadsToDocTool.run
Export_run(input_data, env) ==
    LET validation_result == Export_validate_input_schema(input_data)
    IN  IF validation_result # True
          THEN Dict([success |-> False, server_error |-> False,
                     error |-> Str(<<"Input validation failed: ">>
                                   \o validation_result.s)])
        ELSE IF ReadLeads(input_data, 1) # <<>>
          THEN Dict([success |-> False,
                     error |-> Str(<<"Failed to export leads to Excel: ">>
                                   \o ReadLeads(input_data, 1))])
        ELSE IF env = "write_failed"
          THEN Dict([success |-> False,
                     error |-> Str(<<"Failed to export leads to Excel: ",
                                     "[Errno 13] Permission denied: 'exports'">>)])
        ELSE Dict([success |-> True,
                   message |-> Str(<<"Successfully exported ",
                                     ToString(Len(input_data.l)),
                                     " leads to Excel file">>),
                   filepath |-> Str(<<"/srv/exports/leads_export.xlsx">>),
                   filename |-> Str(<<"leads_export.xlsx">>),
                   total_leads |-> Num(Len(input_data.l))])

\* FormatInitialLeadsTool.run
FormatInitialLeads_run(input_data) ==
    Dict([success |-> True, response |-> input_data])

\* self.next_node.run(input_data), in environment env
run(next_node, input_data, env) ==
    CASE next_node.class = "MailSenderTool" -> MailSender_run(input_data, env)
      [] next_node.class = "ExportLeadsToDocTool" -> Export_run(input_data, env)
      [] OTHER -> FormatInitialLeads_run(input_data)

-----------------------------------------------------------------------------
(* The specification of a call of one of the repository's agents: its model *)
(* client answers as that client does, its tool runs as that tool does.     *)

\* What `await self.llm.query(...)` hands to call(), by client: Perplexity's
\* envelopes, Gemini's bare values and wrapped string, a transport failure.
QueryOutcomes(llm_type) ==
    IF llm_type = "perplexity"
      THEN PerplexityResponses
           \cup {Dict([response |-> v, status |-> Str(<<"success">>)]) :
                    v \in ToolInputs}
           \cup {QueryError}
      ELSE GeminiResponses \cup ToolInputs \cup {QueryError}

ControllerInit ==
    /\ agent \in ControllerAgents
    /\ message \in Prompts
    /\ AgentIdle
    /\ WorkflowOff
    /\ LLMIdle
    /\ suspended = Unset

ControllerNext ==
    \/ Call
    \/ \E o \in QueryOutcomes(agent.llm_type) : FirstQueryReturns(o)
    \/ \E env \in Environments :
           ToolReturns(run(agent.next_node, tool_arg, env))
    \/ \E o \in QueryOutcomes(agent.llm_type) : CorrectiveQueryReturns(o)

ControllerSpec == ControllerInit /\ [][ControllerNext]_vars

-----------------------------------------------------------------------------
(* Claims about the repository's agents and tools, under ControllerSpec. *)

\* Tool.validate_input_schema: the declared input_schema decides, and a tool
\* that declares none accepts every input.
Tool_validate_input_schema(self, input_data) ==
    IF self.input_schema # None
      THEN validate_dynamic_schema(self, input_data)
      ELSE True

\* The input conforms to the tool's schema: the tool's validate_input_schema
\* accepts it (MailSenderTool's with its credentials configured).
Conforms(self, input_data) ==
    CASE self.class = "MailSenderTool" ->
             MailSender_validate_input_schema(input_data, "ok").d["success"] = True
      [] self.class = "ExportLeadsToDocTool" ->
             Export_validate_input_schema(input_data) = True
      [] OTHER -> Tool_validate_input_schema(self, input_data) = True

\* The j-th run of the tool failed in its own execution: it ended as it would
\* not have in an environment where credentials, server and disk are in order.
ExecutionFailed(j) ==
    /\ toolLog[j].out # run(agent.next_node, toolLog[j].arg, "ok")
    /\ \E env \in Environments :
           toolLog[j].out = run(agent.next_node, toolLog[j].arg, env)

\* C25: for every agent constructed with a bound tool, the composed
\* instructions are the base instructions followed verbatim by the text the
\* tool's get_input_schema_prompt returns, also for a tool that defines the
\* description by override.
C25_InstructionsCarryToolDescription ==
    agent.next_node # None =>
        \E who \in {Lucifer, LeadGenerationAgent, EmailAndPhoneNumberGeneratorAgent} :
            /\ agent.name = who[1]
            /\ agent.instructions =
                   <<"You are ", who[1], ". ">> \o who[2] \o <<"\n\n">>
                   \o get_input_schema_prompt(agent.next_node)

\* C26: every tool's run returns ClientError for an input that does not
\* conform to the tool's schema, and no call returns success on such an input.
C26_NonConformantInputIsClientError ==
    /\ \A j \in 1..Len(toolLog) :
           ~Conforms(agent.next_node, toolLog[j].arg) =>
               IsClientError(toolLog[j].out)
    /\ (ReturnedSuccess /\ toolLog # <<>>) =>
           Conforms(agent.next_node, toolLog[Len(toolLog)].arg)

\* C27: a run that failed in the tool's own execution returned a ServerError,
\* and call() made no model query after it.
C27_ExecutionFailureIsServerError ==
    \A j \in 1..Len(toolLog) :
        ExecutionFailed(j) =>
            /\ IsServerError(toolLog[j].out)
            /\ queries <= j

\* C30: for an agent bound to the Gemini client and a tool, whenever the
\* model's output is structured data (an object or an array), the call reaches
\* the tool stage and the tool is invoked with that data.
C30_GeminiDataReachesTool ==
    ( /\ agent.llm_type = "gemini"
      /\ agent.next_node # None
      /\ respLog # <<>>
      /\ respLog[1].t \in {"dict", "list"} ) =>
        /\ toolLog = <<>> => (pc = "tool" /\ tool_arg = respLog[1])
        /\ toolLog # <<>> => toolLog[1].arg = respLog[1]
====
